---- MODULE Spec2Model ----
(***************************************************************************)
(* Convergence polling and node-pool reconciliation of the provider.       *)
(*                                                                         *)
(*  - the three waits: kubernikusWaitForClusterV1 (part_000:191),          *)
(*    waitForArcJobV1 (part_002:313), arcSCIArcAgentV1WaitForAgent         *)
(*    (part_003:48), each with its refresher;                              *)
(*  - the blocking state machine they run,                                 *)
(*    retry.StateChangeConf.WaitForStateContext of terraform-plugin-sdk    *)
(*    v2: a refresh goroutine and the caller's select loop, joined by a    *)
(*    result channel of capacity 1 and a cancellation channel;              *)
(*  - kubernikusUpdateNodePoolsV1 (part_000:262), the reconciler, with     *)
(*    kubernikusUpdateAndWait (part_000:351).                              *)
(*                                                                         *)
(* Spec runs the waits, SpecLive adds weak fairness of every step but the  *)
(* caller's cancellation, SpecPhase applies kubernikusKlusterV1GetPhase    *)
(* (part_000:214) once to each answer of the remote API, SpecRecon runs    *)
(* the reconciler, SpecLong runs the agent wait for hours with answers     *)
(* that take no time, and SpecTags runs updateArcAgentTagsV1               *)
(* (part_003:133).                                                         *)
(*                                                                         *)
(* Time is in milliseconds and advances a second at a time; a step that    *)
(* needs no network answer is taken before time advances.                  *)
(***************************************************************************)
EXTENDS Integers, Sequences, FiniteSets, TLC

\* ---------------------------------------------------------------- bounds
MaxTimeout == 4        \* the largest timeout of a wait, in seconds
MaxReconTimeout == 1   \* the timeout of the waits of a reconciler run, in seconds
MaxLen == 2            \* the longest node-pool list given to the reconciler
LongTimeout == 10800   \* the timeout of a long agent wait, in seconds

\* ------------------------------------------------------------- constants
Second == 1000                 \* time.Second, in milliseconds
AgentNotFoundChecks == 1000    \* NotFoundChecks of the agent wait

VARIABLES
    op,               \* the operation: "cluster", "job", "agent", "reconcile",
                      \* "refresher", "tags"
    conf,             \* the StateChangeConf / arguments of the wait
    pc,               \* position of the calling function
    ret,              \* what the calling function returned: [obj, err]
    ctxDone,          \* the caller's context is cancelled
    now,              \* time since the wait began (ms)
    deadline,         \* when time.After(conf.Timeout) fires
    mpc,              \* WaitForStateContext, caller side: none/select/grace/ret
    lastResult,       \* its lastResult
    wres,             \* its return value: [obj, err]
    gpc,              \* the refresh goroutine: none/delay/send/sleep/refresh/events/sendfinal/exit
    wakeAt,           \* when the goroutine's time.After fires
    wait,             \* its wait
    result,           \* its result (the agent wait's direct call keeps its sample here)
    notfoundTick,     \* its notfoundTick
    targetOccurence,  \* its targetOccurence
    resCh,            \* the result channel's buffer (capacity 1)
    resClosed,        \* the result channel is closed
    cancelCh,         \* the cancellation channel is closed
    shown,            \* cluster refresher: what ShowCluster returned, reduced to (obj, label);
                      \* job and agent refresher: what the API returned
    calls,            \* refresher invocations of the current wait
    evCalls,          \* GetClusterEvents calls of the current wait
    nPending,         \* samples of the current wait that carried a pending label
    timedOut,         \* the timeout of the current wait has fired
    atTimeout,        \* where the wait stood when its timeout fired
    atCancel,         \* the context was cancelled while the goroutine was asleep
    oldRaw, newRaw,   \* reconciler: the old and the new node_pools value
    remoteAZ,         \* reconciler: the availability zone the remote system reports for pools
    poolsToKeep, poolsToDelete, newNodePools,
    step,             \* reconciler: "downscale", "remove", "create"
    submitted,        \* reconciler: the node-pool lists of the UpdateCluster calls, in order
    okWaits,          \* reconciler: waits that returned success
    answer,           \* one refresher call on its own: what the remote API answers
    oldTags, newTags, \* tag update: the old and the new tags of the agent
    tagsToDelete,     \* tag update: its tagsToDelete
    requests          \* tag update: the requests made to the agents API, in order

waitVars == <<now, deadline, mpc, lastResult, wres, gpc, wakeAt, wait, result,
              notfoundTick, targetOccurence, resCh, resClosed, cancelCh, shown,
              calls, evCalls, nPending, timedOut, atTimeout, atCancel>>
reconVars == <<oldRaw, newRaw, remoteAZ, poolsToKeep, poolsToDelete, newNodePools,
               step, submitted, okWaits>>
tagVars == <<oldTags, newTags, tagsToDelete, requests>>
vars == <<op, conf, pc, ret, ctxDone, waitVars, reconVars, answer, tagVars>>

\* ---------------------------------------------------------------- errors
\* An error value: its Go type, its message, the state it names (TimeoutError,
\* UnexpectedStateError) and the action descriptions wrapped around it.
Err(type, msg) == [type |-> type, msg |-> msg, state |-> "", wrap |-> <<>>]
NoErr == Err("nil", "")
IsErr(e) == e.type /= "nil"

NoResult == [obj |-> 0, state |-> "", err |-> NoErr, done |-> FALSE]
NoReturn == [obj |-> 0, err |-> NoErr]

\* ------------------------------------------------ labels and configurations
Phases == {"Pending", "Creating", "Running", "Upgrading", "Terminating"}
JobStatuses == {"queued", "executing", "failed", "complete"}

Conf(target, pending, timeout, nfc, lookup) ==
    [target |-> target, pending |-> pending, timeout |-> timeout,
     notFoundChecks |-> nfc, lookup |-> lookup]

Timeouts == {t * Second : t \in 0..MaxTimeout}

\* resourceCCloudKubernetesV1Create / Update / Delete
ClusterCreateConf(t) == Conf({"Running"}, {"Pending", "Creating", "Upgrading"}, t, 20, "name")
ClusterUpdateConf(t) ==
    Conf({"Running"}, {"Pending", "Creating", "Upgrading", "Terminating"}, t, 20, "name")
ClusterDeleteConf(t) ==
    Conf({"Terminated"}, {"Pending", "Creating", "Running", "Upgrading", "Terminating"}, t, 20, "name")

JobConfs(t) == {Conf({"complete"}, {"queued", "executing"}, t, 20, "id"),
                Conf({"complete", "failed"}, {"queued", "executing"}, t, 20, "id")}

\* (mutant) the agent wait keeps the default of 20 not-found checks
AgentConf_DefaultChecks(t, lookup) == Conf({"active"}, {}, t, 20, lookup)

\* arcSCIArcAgentV1WaitForAgent (part_003:57-64)
AgentConf(t, lookup) == Conf({"active"}, {}, t, AgentNotFoundChecks, lookup)

\* ------------------------------------------------------ cluster refresher
\* What ShowCluster can answer: a failure, or a payload.
Versions == {"v1", "v2"}
SpecPoolLists(az) ==
    {<<>>,
     <<[name |-> "a", size |-> 1, az |-> az]>>,
     <<[name |-> "a", size |-> 1, az |-> az], [name |-> "b", size |-> 0, az |-> az]>>}
StatusPoolLists ==
    {<<>>,
     <<[name |-> "a", healthy |-> 1]>>,
     <<[name |-> "a", healthy |-> 0]>>,
     <<[name |-> "b", healthy |-> 1]>>,
     <<[name |-> "a", healthy |-> 1], [name |-> "b", healthy |-> 0]>>}
ClusterPayloads(az) ==
    [phase : Phases, version : {"v1"}, apiserverVersion : Versions,
     specPools : SpecPoolLists(az), statusPools : StatusPoolLists]
ShowErrors == {Err("ShowClusterDefault", "Not found"), Err("ShowClusterDefault", "Internal error")}

NoPayload ==
    [phase |-> "", version |-> "", apiserverVersion |-> "", specPools |-> <<>>,
     statusPools |-> <<>>]
ShowAnswers(az) ==
    {[err |-> e, payload |-> NoPayload] : e \in ShowErrors}
    \cup {[err |-> NoErr, payload |-> p] : p \in ClusterPayloads(az)}

\* What GetClusterEvents can answer: a failure, or a list of events.
Event(reason, message) == [reason |-> reason, message |-> message]
EventLists ==
    {<<>>,
     <<Event("Normal", "ok")>>,
     <<Event("ConfigurationError", "bad flavor")>>,
     <<Event("FailedCreate", "quota exceeded"), Event("Normal", "ok")>>,
     <<Event("Normal", "ok"), Event("FailedCreate", "quota exceeded")>>}
EventsErrors == {Err("GetClusterEventsDefault", "Internal error")}

EventsAnswers ==
    {[err |-> e, list |-> <<>>] : e \in EventsErrors}
    \cup {[err |-> NoErr, list |-> l] : l \in EventLists}
NoAnswer == [show |-> [err |-> NoErr, payload |-> NoPayload],
             events |-> [err |-> NoErr, list |-> <<>>]]

\* strings.Contains(event.Reason, "Error") || strings.Contains(event.Reason, "Failed")
FailureReason(reason) == reason \in {"ConfigurationError", "FailedCreate"}

\* part_000:236-251, the loop over Spec.NodePools from pool i on: the label it
\* returns, or "" when it runs to its end.
RECURSIVE PoolsLabel(_, _)
PoolsLabel(p, i) ==
    IF i > Len(p.specPools) THEN ""
    ELSE IF p.phase = "Running" /\ p.version /= p.apiserverVersion THEN "Upgrading"
    ELSE IF \E j \in 1..Len(p.statusPools) :
                /\ p.specPools[i].name = p.statusPools[j].name
                /\ p.specPools[i].size /= p.statusPools[j].healthy
         THEN "Pending"
    ELSE PoolsLabel(p, i + 1)

\* (mutant) the numbers of pools are not compared
PayloadLabel_NoCount(p) ==
    IF PoolsLabel(p, 1) /= "" THEN PoolsLabel(p, 1)
    ELSE p.phase

\* part_000:236-258, the label of a payload when no failure event ended the sample
PayloadLabel(p) ==
    IF PoolsLabel(p, 1) /= "" THEN PoolsLabel(p, 1)
    ELSE IF Len(p.specPools) /= Len(p.statusPools) THEN "Pending"
    ELSE p.phase

\* (mutant) the node pools are inspected whatever the target is
TerminatedLabel_WithPools(p) == PayloadLabel(p)

\* part_000:221, 258: target Terminated skips events and pools alike
TerminatedLabel(p) == p.phase

\* (mutant) the first event is inspected instead of the last
EventsSample_First(events) ==
    IF Len(events) > 0 /\ FailureReason(events[1].reason)
    THEN [obj |-> 0, state |-> events[1].reason, err |-> Err("errorString", events[1].message)]
    ELSE [obj |-> 0, state |-> "", err |-> NoErr]

\* part_000:227-234: the sample a list of events ends with, if any
EventsSample(events) ==
    IF Len(events) > 0 /\ FailureReason(events[Len(events)].reason)
    THEN [obj |-> 0, state |-> events[Len(events)].reason,
          err |-> Err("errorString", events[Len(events)].message)]
    ELSE [obj |-> 0, state |-> "", err |-> NoErr]

\* ---------------------------------------------------------- job refresher
JobErrors == {Err("ErrDefault404", "job not found"), Err("ErrDefault500", "Internal error")}
\* (mutant) a job that is not found is polled again
JobSample_NotFoundRetried(obj, status, err) ==
    IF IsErr(err)
    THEN IF err.type = "ErrDefault404"
         THEN [obj |-> 0, state |-> "", err |-> NoErr]
         ELSE [obj |-> 0, state |-> "", err |-> Err("errorString", err.msg)]
    ELSE [obj |-> obj, state |-> status, err |-> NoErr]

\* part_002:330-339
JobSample(obj, status, err) ==
    IF IsErr(err)
    THEN [obj |-> 0, state |-> "", err |-> Err("errorString", err.msg)]
    ELSE [obj |-> obj, state |-> status, err |-> NoErr]

\* -------------------------------------------------------- agent refresher
AgentGetErrors == {Err("ErrDefault404", "agent not found"), Err("ErrDefault500", "Internal error")}
\* gophercloud.ResponseCodeIs(err, http.StatusNotFound)
ResponseCodeIsNotFound(err) == err.type = "ErrDefault404"

\* (mutant) not found is retryable whatever the timeout is
AgentGetSample_AlwaysRetryable(obj, err, timeout) ==
    IF IsErr(err)
    THEN IF ResponseCodeIsNotFound(err)
         THEN [obj |-> 0, state |-> "unable to retrieve", err |-> NoErr]
         ELSE [obj |-> 0, state |-> "", err |-> Err("errorString", err.msg)]
    ELSE [obj |-> obj, state |-> "active", err |-> NoErr]

\* part_003:91-99, 127-129: lookup by id
AgentGetSample(obj, err, timeout) ==
    IF IsErr(err)
    THEN IF ResponseCodeIsNotFound(err) /\ timeout > 0
         THEN [obj |-> 0, state |-> "unable to retrieve", err |-> NoErr]
         ELSE [obj |-> 0, state |-> "", err |-> Err("errorString", err.msg)]
    ELSE [obj |-> obj, state |-> "active", err |-> NoErr]

\* (mutant) of several listed agents the first one is taken
AgentListSample_FirstOfMany(obj, n, err) ==
    IF IsErr(err)
    THEN [obj |-> 0, state |-> "", err |-> Err("errorString", err.msg)]
    ELSE IF n = 0 THEN [obj |-> 0, state |-> "No sci_arc_agent_v1 found", err |-> NoErr]
    ELSE [obj |-> obj, state |-> "active", err |-> NoErr]

\* part_003:100-129: lookup by filter; n is the number of agents listed
AgentListSample(obj, n, err) ==
    IF IsErr(err)
    THEN [obj |-> 0, state |-> "", err |-> Err("errorString", err.msg)]
    ELSE IF n = 0 THEN [obj |-> 0, state |-> "No sci_arc_agent_v1 found", err |-> NoErr]
    ELSE IF n > 1 THEN [obj |-> 0, state |-> "", err |-> Err("errorString", "more than one found")]
    ELSE [obj |-> obj, state |-> "active", err |-> NoErr]

\* part_003:87-89
AgentNoLookupSample ==
    [obj |-> 0, state |-> "", err |-> Err("errorString", "agent_id or filter expected")]

\* ------------------------------------------------- WaitForStateContext
\* (mutant) a target label does not end the loop
Verdict_TargetRetried(s, cf, nft) ==
    IF IsErr(s.err) THEN "error"
    ELSE IF s.obj = 0 THEN (IF nft + 1 > cf.notFoundChecks THEN "gone" ELSE "absent")
    ELSE IF s.state \notin cf.target /\ s.state \notin cf.pending /\ cf.pending /= {}
         THEN "unexpected"
    ELSE "retry"

\* (mutant) a label that is neither target nor pending is retried
Verdict_NoUnexpected(s, cf, nft) ==
    IF IsErr(s.err) THEN "error"
    ELSE IF s.obj = 0 THEN (IF nft + 1 > cf.notFoundChecks THEN "gone" ELSE "absent")
    ELSE IF s.state \in cf.target THEN "target"
    ELSE "retry"

\* (mutant) a failed refresh is polled again, like a pending label
Verdict_ErrorRetried(s, cf, nft) ==
    IF IsErr(s.err) THEN "retry"
    ELSE IF s.obj = 0 THEN (IF nft + 1 > cf.notFoundChecks THEN "gone" ELSE "absent")
    ELSE IF s.state \in cf.target THEN "target"
    ELSE IF s.state \notin cf.pending /\ cf.pending /= {} THEN "unexpected"
    ELSE "retry"

\* The refresh loop's verdict on one sample (res, currentState, err):
\*   "error"      err != nil
\*   "gone"       res == nil once more than NotFoundChecks times in a row
\*   "absent"     res == nil, retried
\*   "target"     currentState is a target
\*   "unexpected" currentState is neither target nor pending, and Pending is not empty
\*   "retry"      anything else
Verdict(s, cf, nft) ==
    IF IsErr(s.err) THEN "error"
    ELSE IF s.obj = 0 THEN (IF nft + 1 > cf.notFoundChecks THEN "gone" ELSE "absent")
    ELSE IF s.state \in cf.target THEN "target"
    ELSE IF s.state \notin cf.pending /\ cf.pending /= {} THEN "unexpected"
    ELSE "retry"

Final(v) == v \in {"error", "gone", "target", "unexpected"}

\* The result the loop sends for a sample with verdict v
ResultOf(s, v) ==
    [obj |-> s.obj, state |-> s.state, done |-> (v = "target"),
     err |-> CASE v = "gone" -> [Err("NotFoundError", "couldn't find resource") EXCEPT !.state = s.state]
               [] v = "unexpected" -> [Err("UnexpectedStateError", "unexpected state") EXCEPT !.state = s.state]
               [] OTHER -> s.err]

\* The wait before the next refresh: doubled unless the target was just seen,
\* at least MinTimeout (1 s here) and at most 10 s; PollInterval is not set.
MinTimeout == 1 * Second
Delay == 1 * Second
NextWait(w, occ) ==
    LET d == IF occ = 0 THEN w * 2 ELSE w
    IN  IF d < MinTimeout THEN MinTimeout
        ELSE IF d > 10 * Second THEN 10 * Second
        ELSE d

\* (mutant) the TimeoutError does not carry the last state
TimeoutError_NoState(last) == Err("TimeoutError", "timeout while waiting for state")

\* The TimeoutError built from lastResult
TimeoutError(last) == [Err("TimeoutError", "timeout while waiting for state") EXCEPT !.state = last.state]
CtxErr == Err("ctx", "context canceled")

\* Where a wait stands when its timeout fires:
\*   quiet       no refresher call is in flight and none can start any more: the
\*               goroutine waits for a timer that is not due yet, or has returned
\*   allPending  every sample returned so far carried a pending label
Snapshot ==
    [set |-> TRUE,
     quiet |-> \/ gpc \in {"delay", "sleep"} /\ now < wakeAt
               \/ gpc = "send" /\ wait > 0
               \/ gpc \in {"sendfinal", "exit"},
     allPending |-> (nPending = IF gpc \in {"refresh", "events"} THEN calls - 1 ELSE calls)]
NoSnapshot == [set |-> FALSE, quiet |-> FALSE, allPending |-> FALSE]

\* The goroutine sleeps between two polls and neither its timer nor the
\* timeout is due
Asleep == gpc = "sleep" /\ now < wakeAt /\ now < deadline

\* The call of WaitForStateContext: timers armed, goroutine started
BeginStateMachine ==
    /\ now' = 0
    /\ deadline' = conf.timeout
    /\ mpc' = "select"
    /\ lastResult' = NoResult
    /\ wres' = NoReturn
    /\ gpc' = "delay"
    /\ wakeAt' = Delay
    /\ wait' = 0
    /\ result' = NoResult
    /\ notfoundTick' = 0
    /\ targetOccurence' = 0
    /\ resCh' = <<>>
    /\ resClosed' = FALSE
    /\ cancelCh' = FALSE
    /\ shown' = NoResult
    /\ calls' = 0
    /\ evCalls' = 0
    /\ nPending' = 0
    /\ timedOut' = FALSE
    /\ atTimeout' = NoSnapshot
    /\ atCancel' = FALSE

callerVars == <<op, conf, pc, ret, reconVars, answer, tagVars>>
mainVars == <<mpc, lastResult, wres, timedOut, atTimeout, atCancel>>
loopVars == <<wait, result, notfoundTick, targetOccurence, shown, calls, evCalls,
              nPending>>

\* goroutine: select { case <-time.After(conf.Delay): case <-cancelCh: return }
GDelay ==
    /\ gpc = "delay"
    /\ \/ /\ now >= wakeAt
          /\ gpc' = "send"
          /\ UNCHANGED resClosed
       \/ /\ cancelCh
          /\ gpc' = "exit"
          /\ resClosed' = TRUE
    /\ UNCHANGED <<callerVars, ctxDone, now, deadline, mainVars, wakeAt, loopVars, resCh, cancelCh>>

\* goroutine: resCh <- result, at the top of the loop; then the select is entered
GSend ==
    /\ gpc = "send"
    /\ resCh = <<>>
    /\ resCh' = <<result>>
    /\ gpc' = "sleep"
    /\ wakeAt' = now + wait
    /\ UNCHANGED <<callerVars, ctxDone, now, deadline, mainVars, loopVars, resClosed, cancelCh>>

\* goroutine: select { case <-cancelCh: return ... }
GSleepCancel ==
    /\ gpc = "sleep"
    /\ cancelCh
    /\ gpc' = "exit"
    /\ resClosed' = TRUE
    /\ UNCHANGED <<callerVars, ctxDone, now, deadline, mainVars, wakeAt, loopVars, resCh, cancelCh>>

\* goroutine: select { ... case <-time.After(wait): }, then conf.Refresh() is
\* called: its first network call is issued
GSleepWake ==
    /\ gpc = "sleep"
    /\ now >= wakeAt
    /\ wait' = IF wait = 0 THEN 100 ELSE wait
    /\ calls' = calls + 1
    /\ gpc' = "refresh"
    /\ UNCHANGED <<callerVars, ctxDone, now, deadline, mainVars, wakeAt, result, notfoundTick,
                   targetOccurence, shown, evCalls, nPending, resCh, resClosed, cancelCh>>

\* goroutine: the rest of one pass of the loop, once conf.Refresh() returned s
AfterRefresh(s) ==
    LET v == Verdict(s, conf, notfoundTick)
        occ == IF v = "target" THEN targetOccurence + 1
               ELSE IF v = "retry" /\ s.state \in conf.pending THEN 0
               ELSE targetOccurence
    IN  /\ result' = ResultOf(s, v)
        /\ notfoundTick' = CASE v \in {"gone", "absent"} -> notfoundTick + 1
                             [] v = "error" -> notfoundTick
                             [] OTHER -> 0
        /\ targetOccurence' = occ
        /\ nPending' = IF v = "retry" /\ s.state \in conf.pending THEN nPending + 1 ELSE nPending
        /\ IF Final(v)
           THEN gpc' = "sendfinal" /\ wait' = wait
           ELSE gpc' = "send" /\ wait' = NextWait(wait, occ)

\* goroutine: resCh <- result; return (the deferred close(resCh) runs)
GSendFinal ==
    /\ gpc = "sendfinal"
    /\ resCh = <<>>
    /\ resCh' = <<result>>
    /\ resClosed' = TRUE
    /\ gpc' = "exit"
    /\ UNCHANGED <<callerVars, ctxDone, now, deadline, mainVars, wakeAt, loopVars, cancelCh>>

refreshFrame == <<callerVars, ctxDone, now, deadline, mainVars, wakeAt, resCh, resClosed, cancelCh>>

\* kubernikusKlusterV1GetPhase, first half: ShowCluster answers (part_000:216-225)
GShowReturn ==
    /\ op \in {"cluster", "reconcile"}
    /\ gpc = "refresh"
    /\ \/ \E e \in ShowErrors :
             /\ AfterRefresh([obj |-> 0, state |-> "", err |-> e])
             /\ UNCHANGED <<shown, evCalls>>
       \/ \E l \in {IF "Terminated" \notin conf.target THEN PayloadLabel(p) ELSE TerminatedLabel(p) :
                       p \in ClusterPayloads(remoteAZ)} :
             IF "Terminated" \notin conf.target
             THEN /\ shown' = [NoResult EXCEPT !.obj = calls, !.state = l]
                  /\ evCalls' = evCalls + 1
                  /\ gpc' = "events"
                  /\ UNCHANGED <<wait, result, notfoundTick, targetOccurence, nPending>>
             ELSE /\ AfterRefresh([obj |-> calls, state |-> l, err |-> NoErr])
                  /\ UNCHANGED <<shown, evCalls>>
    /\ UNCHANGED <<refreshFrame, calls>>

\* kubernikusKlusterV1GetPhase, second half: GetClusterEvents answers (part_000:222-258)
GEventsReturn ==
    /\ gpc = "events"
    /\ \/ \E e \in EventsErrors : AfterRefresh([obj |-> 0, state |-> "", err |-> e])
       \/ \E ev \in EventLists :
             IF IsErr(EventsSample(ev).err)
             THEN AfterRefresh(EventsSample(ev))
             ELSE AfterRefresh([obj |-> shown.obj, state |-> shown.state, err |-> NoErr])
    /\ shown' = NoResult
    /\ UNCHANGED <<refreshFrame, calls, evCalls>>

\* arcJobV1GetStatus: jobs.Get answers; shown keeps the answer
GJobReturn ==
    /\ op = "job"
    /\ gpc = "refresh"
    /\ \/ \E e \in JobErrors :
             /\ shown' = [NoResult EXCEPT !.err = e]
             /\ AfterRefresh(JobSample(calls, "", e))
       \/ \E st \in JobStatuses :
             /\ shown' = [NoResult EXCEPT !.obj = calls, !.state = st]
             /\ AfterRefresh(JobSample(calls, st, NoErr))
    /\ UNCHANGED <<refreshFrame, calls, evCalls>>

\* What the agents API can answer: agents.Get an agent or a failure, agents.List
\* n agents or a failure; nothing is asked without an id and a filter
AgentAnswers(lookup) ==
    CASE lookup = "id" -> {[err |-> e, n |-> 1] : e \in AgentGetErrors \cup {NoErr}}
      [] lookup = "filter" ->
            {[err |-> NoErr, n |-> n] : n \in 0..2}
            \cup {[err |-> Err("ErrDefault500", "Internal error"), n |-> 0]}
      [] OTHER -> {[err |-> NoErr, n |-> 0]}

\* The sample of arcSCIArcAgentV1GetAgent for the answer a
AgentSampleFor(obj, lookup, timeout, a) ==
    CASE lookup = "id" -> AgentGetSample(obj, a.err, timeout)
      [] lookup = "filter" -> AgentListSample(obj, a.n, a.err)
      [] OTHER -> AgentNoLookupSample

AgentSamples(obj, lookup, timeout) ==
    {AgentSampleFor(obj, lookup, timeout, a) : a \in AgentAnswers(lookup)}

\* arcSCIArcAgentV1GetAgent, run by the state machine; shown keeps the answer
GAgentReturn ==
    /\ op = "agent"
    /\ gpc = "refresh"
    /\ \E a \in AgentAnswers(conf.lookup) :
          /\ shown' = [NoResult EXCEPT !.obj = a.n, !.err = a.err]
          /\ AfterRefresh(AgentSampleFor(calls, conf.lookup, conf.timeout, a))
    /\ UNCHANGED <<refreshFrame, calls, evCalls>>

mainFrame == <<callerVars, ctxDone, now, deadline, gpc, wakeAt, loopVars, resClosed>>

\* caller: case r, ok := <-resCh, a value received
MainRecv ==
    /\ mpc = "select"
    /\ resCh /= <<>>
    /\ resCh' = <<>>
    /\ IF resCh[1].done
       THEN /\ wres' = [obj |-> resCh[1].obj, err |-> resCh[1].err]
            /\ mpc' = "ret"
            /\ UNCHANGED lastResult
       ELSE /\ lastResult' = resCh[1]
            /\ UNCHANGED <<wres, mpc>>
    /\ UNCHANGED <<mainFrame, cancelCh, timedOut, atTimeout, atCancel>>

\* caller: case r, ok := <-resCh, the channel is closed and drained
MainClosed ==
    /\ mpc = "select"
    /\ resCh = <<>>
    /\ resClosed
    /\ wres' = [obj |-> lastResult.obj, err |-> lastResult.err]
    /\ mpc' = "ret"
    /\ UNCHANGED <<mainFrame, resCh, cancelCh, lastResult, timedOut, atTimeout, atCancel>>

\* caller: case <-ctx.Done()
MainCancel ==
    /\ mpc = "select"
    /\ ctxDone
    /\ cancelCh' = TRUE
    /\ wres' = [obj |-> 0, err |-> CtxErr]
    /\ mpc' = "ret"
    /\ UNCHANGED <<mainFrame, resCh, lastResult, timedOut, atTimeout, atCancel>>

\* (mutant) the timeout does not stop the goroutine
MainTimeout_NoCancel ==
    /\ mpc = "select"
    /\ now >= deadline
    /\ timedOut' = TRUE
    /\ atTimeout' = Snapshot
    /\ mpc' = "grace"
    /\ UNCHANGED <<mainFrame, resCh, cancelCh, lastResult, wres, atCancel>>

\* caller: case <-timeout; the grace period begins
MainTimeout ==
    /\ mpc = "select"
    /\ now >= deadline
    /\ cancelCh' = TRUE
    /\ timedOut' = TRUE
    /\ atTimeout' = Snapshot
    /\ mpc' = "grace"
    /\ UNCHANGED <<mainFrame, resCh, lastResult, wres, atCancel>>

\* caller, grace period: a value received
GraceRecv ==
    /\ mpc = "grace"
    /\ resCh /= <<>>
    /\ resCh' = <<>>
    /\ IF resCh[1].done
       THEN /\ wres' = [obj |-> resCh[1].obj, err |-> resCh[1].err]
            /\ mpc' = "ret"
            /\ UNCHANGED lastResult
       ELSE /\ lastResult' = resCh[1]
            /\ UNCHANGED <<wres, mpc>>
    /\ UNCHANGED <<mainFrame, cancelCh, timedOut, atTimeout, atCancel>>

\* caller, grace period: the channel is closed, the context is cancelled, or the
\* grace period (30 s) ends while a refresh is still waiting for its answer
GraceEnd ==
    /\ mpc = "grace"
    /\ \/ resCh = <<>> /\ resClosed
       \/ ctxDone
       \/ gpc \in {"refresh", "events"}
    /\ wres' = [obj |-> 0, err |-> TimeoutError(lastResult)]
    /\ mpc' = "ret"
    /\ UNCHANGED <<mainFrame, resCh, cancelCh, lastResult, timedOut, atTimeout, atCancel>>

\* A step of the goroutine that waits for no network answer is enabled
GoroutineReady ==
    \/ gpc \in {"delay", "sleep"} /\ (now >= wakeAt \/ cancelCh)
    \/ gpc \in {"send", "sendfinal"} /\ resCh = <<>>

\* Time passes while the caller is blocked in its select and nothing else can run
Tick ==
    /\ mpc = "select"
    /\ now < deadline
    /\ ~GoroutineReady
    /\ resCh = <<>> /\ ~resClosed /\ ~ctxDone
    /\ now' = now + Second
    /\ UNCHANGED <<callerVars, ctxDone, deadline, mainVars, gpc, wakeAt, loopVars, resCh,
                   resClosed, cancelCh>>

\* The caller's context is cancelled during a wait
Cancel ==
    /\ mpc \in {"select", "grace"}
    /\ ~ctxDone
    /\ ctxDone' = TRUE
    /\ atCancel' = Asleep
    /\ UNCHANGED <<callerVars, now, deadline, mpc, lastResult, wres, gpc, wakeAt, wait, result,
                   notfoundTick, targetOccurence, resCh, resClosed, cancelCh, shown,
                   calls, evCalls, nPending, timedOut, atTimeout>>

\* ------------------------------------------------------------- the waits
callFrame == <<op, conf, ctxDone, reconVars, answer, tagVars>>

\* (mutant) not found counts as success whatever the target is
ClusterWaitErr_AnyTarget(e, target) ==
    IF e.type = "ShowClusterDefault" /\ e.msg = "Not found"
    THEN NoErr
    ELSE e

\* (mutant) a cancelled wait is reported as success
ClusterWaitErr_SwallowCancel(e, target) ==
    IF e.type = "ctx" THEN NoErr
    ELSE IF e.type = "ShowClusterDefault" /\ "Terminated" \in target /\ e.msg = "Not found"
    THEN NoErr
    ELSE e

\* kubernikusWaitForClusterV1 (part_000:204-211): not found counts as success
\* when the target is Terminated
ClusterWaitErr(e, target) ==
    IF e.type = "ShowClusterDefault" /\ "Terminated" \in target /\ e.msg = "Not found"
    THEN NoErr
    ELSE e

\* kubernikusWaitForClusterV1 up to stateConf.WaitForStateContext(ctx)
ClusterWaitBegin ==
    /\ op = "cluster"
    /\ pc = "begin"
    /\ BeginStateMachine
    /\ pc' = "wait"
    /\ UNCHANGED <<callFrame, ret>>

ClusterWaitEnd ==
    /\ op = "cluster"
    /\ pc = "wait"
    /\ mpc = "ret"
    /\ ret' = [obj |-> 0, err |-> ClusterWaitErr(wres.err, conf.target)]
    /\ pc' = "done"
    /\ UNCHANGED <<callFrame, waitVars>>

\* waitForArcJobV1 (part_002:313-328)
JobWaitBegin ==
    /\ op = "job"
    /\ pc = "begin"
    /\ BeginStateMachine
    /\ pc' = "wait"
    /\ UNCHANGED <<callFrame, ret>>

JobWaitEnd ==
    /\ op = "job"
    /\ pc = "wait"
    /\ mpc = "ret"
    /\ ret' = [obj |-> 0, err |-> wres.err]
    /\ pc' = "done"
    /\ UNCHANGED <<callFrame, waitVars>>

\* arcSCIArcAgentV1WaitForAgent (part_003:71-79): what it returns for (agent, msg, err)
AgentReturn(obj, msg, err) ==
    IF msg /= "" /\ msg /= "active" THEN [obj |-> 0, err |-> Err("errorString", msg)]
    ELSE IF IsErr(err) THEN [obj |-> 0, err |-> err]
    ELSE [obj |-> obj, err |-> NoErr]

\* (mutant) the state machine is run whatever the timeout is
AgentWaitBegin_AlwaysStateMachine ==
    /\ op = "agent"
    /\ pc = "begin"
    /\ BeginStateMachine
    /\ pc' = "wait"
    /\ UNCHANGED <<callFrame, ret>>

\* arcSCIArcAgentV1WaitForAgent (part_003:55-69): the state machine under a
\* positive timeout, else one direct call of the refresher
AgentWaitBegin ==
    /\ op = "agent"
    /\ pc = "begin"
    /\ IF conf.timeout > 0
       THEN /\ BeginStateMachine
            /\ pc' = "wait"
       ELSE /\ calls' = calls + 1
            /\ pc' = "direct"
            /\ UNCHANGED <<now, deadline, mpc, lastResult, wres, gpc, wakeAt, wait, result,
                           notfoundTick, targetOccurence, resCh, resClosed, cancelCh, shown,
                           evCalls, nPending, timedOut, atTimeout, atCancel>>
    /\ UNCHANGED <<callFrame, ret>>

\* timeout == 0: the refresher's answer is returned as it is
AgentDirectReturn ==
    /\ op = "agent"
    /\ pc = "direct"
    /\ \E a \in AgentAnswers(conf.lookup) :
          LET s == AgentSampleFor(calls, conf.lookup, conf.timeout, a)
          IN  /\ shown' = [NoResult EXCEPT !.obj = a.n, !.err = a.err]
              /\ result' = [obj |-> s.obj, state |-> s.state, err |-> s.err, done |-> FALSE]
              /\ ret' = AgentReturn(s.obj, s.state, s.err)
    /\ pc' = "done"
    /\ UNCHANGED <<callFrame, now, deadline, mpc, lastResult, wres, gpc, wakeAt, wait,
                   notfoundTick, targetOccurence, resCh, resClosed, cancelCh, calls,
                   evCalls, nPending, timedOut, atTimeout, atCancel>>

AgentWaitEnd ==
    /\ op = "agent"
    /\ pc = "wait"
    /\ mpc = "ret"
    /\ ret' = AgentReturn(wres.obj, "", wres.err)
    /\ pc' = "done"
    /\ UNCHANGED <<callFrame, waitVars>>

\* ------------------------------------------------------- specification
IdleWait ==
    /\ now = 0 /\ deadline = 0 /\ mpc = "none" /\ lastResult = NoResult /\ wres = NoReturn
    /\ gpc = "none" /\ wakeAt = 0 /\ wait = 0 /\ result = NoResult /\ notfoundTick = 0
    /\ targetOccurence = 0 /\ resCh = <<>> /\ resClosed = FALSE /\ cancelCh = FALSE
    /\ shown = NoResult /\ calls = 0 /\ evCalls = 0 /\ nPending = 0
    /\ timedOut = FALSE /\ atTimeout = NoSnapshot /\ atCancel = FALSE

IdleRecon ==
    /\ oldRaw = <<>> /\ newRaw = <<>> /\ remoteAZ = "" /\ poolsToKeep = <<>>
    /\ poolsToDelete = <<>> /\ newNodePools = <<>> /\ step = "" /\ submitted = <<>>
    /\ okWaits = 0

\* no tags: the map without keys
NoTags == [k \in {} |-> ""]

IdleTags == oldTags = NoTags /\ newTags = NoTags /\ tagsToDelete = <<>> /\ requests = <<>>

WaitConfs ==
    UNION {{[op |-> "cluster", conf |-> ClusterCreateConf(t)],
            [op |-> "cluster", conf |-> ClusterDeleteConf(t)]}
           \cup {[op |-> "job", conf |-> c] : c \in JobConfs(t)}
           \cup {[op |-> "agent", conf |-> AgentConf(t, l)] : l \in {"id", "filter", "none"}}
           : t \in Timeouts}

Init ==
    /\ \E w \in WaitConfs : op = w.op /\ conf = w.conf
    /\ pc = "begin"
    /\ ret = NoReturn
    /\ ctxDone = FALSE
    /\ IdleWait
    /\ IdleRecon
    /\ answer = NoAnswer
    /\ IdleTags

StateMachine ==
    \/ GDelay \/ GSend \/ GSleepCancel \/ GSleepWake \/ GSendFinal
    \/ MainRecv \/ MainClosed \/ MainCancel \/ MainTimeout \/ GraceRecv \/ GraceEnd
    \/ Tick \/ Cancel

Next ==
    \/ ClusterWaitBegin \/ ClusterWaitEnd \/ GShowReturn \/ GEventsReturn
    \/ JobWaitBegin \/ JobWaitEnd \/ GJobReturn
    \/ AgentWaitBegin \/ AgentDirectReturn \/ AgentWaitEnd \/ GAgentReturn
    \/ StateMachine

Spec == Init /\ [][Next]_vars

\* The agent wait with a timeout long enough for more than NotFoundChecks
\* polls, and with a short one; the answers of the agents API take no time
LongTimeouts == {2 * Second, LongTimeout * Second}

InitLong ==
    /\ op = "agent"
    /\ \E t \in LongTimeouts, l \in {"id", "filter"} : conf = AgentConf(t, l)
    /\ pc = "begin"
    /\ ret = NoReturn
    /\ ctxDone = FALSE
    /\ IdleWait
    /\ IdleRecon
    /\ answer = NoAnswer
    /\ IdleTags

\* Time passes only between two polls: the agents API answers at once
TickAsleep == gpc /= "refresh" /\ Tick

NextLong ==
    \/ AgentWaitBegin \/ AgentWaitEnd \/ GAgentReturn
    \/ GDelay \/ GSend \/ GSleepCancel \/ GSleepWake \/ GSendFinal
    \/ MainRecv \/ MainClosed \/ MainCancel \/ MainTimeout \/ GraceRecv \/ GraceEnd
    \/ TickAsleep \/ Cancel

SpecLong == InitLong /\ [][NextLong]_vars

\* The waits under the scheduling the Go runtime gives them: a step of the
\* program that can be taken is taken (timers fire, runnable goroutines run, a
\* network call is answered or the grace period ends). Nothing obliges the
\* caller to cancel its context.
Scheduled ==
    \/ ClusterWaitBegin \/ ClusterWaitEnd \/ GShowReturn \/ GEventsReturn
    \/ JobWaitBegin \/ JobWaitEnd \/ GJobReturn
    \/ AgentWaitBegin \/ AgentDirectReturn \/ AgentWaitEnd \/ GAgentReturn
    \/ GDelay \/ GSend \/ GSleepCancel \/ GSleepWake \/ GSendFinal
    \/ MainRecv \/ MainClosed \/ MainCancel \/ MainTimeout \/ GraceRecv \/ GraceEnd
    \/ Tick

SpecLive == Init /\ [][Next]_vars /\ WF_vars(Scheduled)

\* ------------------------------------------------------- the reconciler
Pool(name, flavor, image, size, az) ==
    [name |-> name, flavor |-> flavor, image |-> image, size |-> size, az |-> az]

\* The node pools the old and the new configuration are drawn from
PoolUniverse ==
    {Pool("a", "f", "i", 3, ""),
     Pool("a", "f", "i", 3, "east-1"),
     Pool("a", "f", "i", 1, "west-1"),
     Pool("a", "g", "i", 3, ""),
     Pool("a", "f", "j", 3, ""),
     Pool("b", "f", "i", 2, "east-1")}

RawLists == UNION {[1..n -> PoolUniverse] : n \in 0..MaxLen}

\* strings.ToLower on pool names
ToLower(str) == CASE str = "A" -> "a" [] str = "B" -> "b" [] OTHER -> str

\* ------------------------------------------- one refresher call on its own
\* kubernikusKlusterV1GetPhase (part_000:214-260) with its two fetches answered
\* by answer.show and answer.events; its sample is left in result.
PhaseFrame ==
    <<op, conf, ret, ctxDone, reconVars, answer, tagVars, now, deadline, mpc, lastResult, wres, gpc,
      wakeAt, wait, notfoundTick, targetOccurence, resCh, resClosed, cancelCh, shown,
      nPending, timedOut, atTimeout, atCancel>>

\* ShowCluster is called and answers (part_000:216-221, 258)
PhaseShow ==
    /\ op = "refresher"
    /\ pc = "begin"
    /\ calls' = calls + 1
    /\ IF IsErr(answer.show.err)
       THEN /\ result' = [NoResult EXCEPT !.err = answer.show.err]
            /\ pc' = "done"
            /\ UNCHANGED evCalls
       ELSE IF "Terminated" \in conf.target
       THEN /\ result' = [NoResult EXCEPT !.obj = calls + 1,
                                          !.state = TerminatedLabel(answer.show.payload)]
            /\ pc' = "done"
            /\ UNCHANGED evCalls
       ELSE /\ evCalls' = evCalls + 1
            /\ pc' = "events"
            /\ UNCHANGED result
    /\ UNCHANGED PhaseFrame

\* GetClusterEvents answers (part_000:222-258)
PhaseEvents ==
    /\ op = "refresher"
    /\ pc = "events"
    /\ result' = IF IsErr(answer.events.err)
                 THEN [NoResult EXCEPT !.err = answer.events.err]
                 ELSE IF IsErr(EventsSample(answer.events.list).err)
                 THEN [NoResult EXCEPT !.state = EventsSample(answer.events.list).state,
                                       !.err = EventsSample(answer.events.list).err]
                 ELSE [NoResult EXCEPT !.obj = calls,
                                       !.state = PayloadLabel(answer.show.payload)]
    /\ pc' = "done"
    /\ UNCHANGED <<PhaseFrame, calls, evCalls>>

InitPhase ==
    /\ op = "refresher"
    /\ conf \in {ClusterCreateConf(0), ClusterUpdateConf(0), ClusterDeleteConf(0)}
    /\ pc = "begin"
    /\ ret = NoReturn
    /\ ctxDone = FALSE
    /\ IdleWait
    /\ IdleRecon
    /\ \E s \in ShowAnswers(""), e \in EventsAnswers : answer = [show |-> s, events |-> e]
    /\ IdleTags

NextPhase == PhaseShow \/ PhaseEvents

SpecPhase == InitPhase /\ [][NextPhase]_vars

\* (mutant) the duplicate check never finds the name
strSliceContains_Never(sl, str) == FALSE

\* strSliceContains (util.go:41-49)
strSliceContains(sl, str) == \E k \in 1..Len(sl) : ToLower(sl[k]) = ToLower(str)

\* kubernikusExpandNodePoolsV1 (part_000:137-189), from entry i on, with the
\* names and the pools collected so far: [pools, err]
RECURSIVE ExpandFrom(_, _, _, _)
ExpandFrom(raw, i, names, res) ==
    IF i > Len(raw) THEN [pools |-> res, err |-> NoErr]
    ELSE IF strSliceContains(names, raw[i].name)
         THEN [pools |-> <<>>, err |-> Err("errorString", "duplicate node pool name found")]
    ELSE ExpandFrom(raw, i + 1, Append(names, raw[i].name), Append(res, raw[i]))

kubernikusExpandNodePoolsV1(raw) == ExpandFrom(raw, 1, <<>>, <<>>)

\* (mutant) a pool is continued by the new pool of its name, whatever its
\* flavor, image and zone are
Matches_NameOnly(o, np) == o.name = np.name

\* (mutant) a pool is continued by any new pool of its flavor and image
Matches_AnyName(o, np) ==
    /\ o.flavor = np.flavor
    /\ o.image = np.image
    /\ (np.az = "" \/ o.az = np.az)

\* part_000:290, the condition under which new pool np continues old pool o
Matches(o, np) ==
    /\ o.name = np.name
    /\ o.flavor = np.flavor
    /\ o.image = np.image
    /\ (np.az = "" \/ o.az = np.az)

\* (mutant) the zone of the old pool is not copied
KeepEntry_NoCopy(o, np) == np

\* part_000:291-295, the entry kept for np: an unset zone is copied from o
KeepEntry(o, np) == IF np.az = "" THEN [np EXCEPT !.az = o.az] ELSE np

\* part_000:302-303, the entry that downscales o
DownscaleEntry(o) == [o EXCEPT !.size = 0]

\* part_000:289-299, the inner loop from new pool j on: the entries kept for o
RECURSIVE KeepFor(_, _, _)
KeepFor(o, news, j) ==
    IF j > Len(news) THEN <<>>
    ELSE (IF Matches(o, news[j]) THEN <<KeepEntry(o, news[j])>> ELSE <<>>)
         \o KeepFor(o, news, j + 1)

\* part_000:287-306, the outer loop from old pool i on: [keep, del]
RECURSIVE MatchFrom(_, _, _, _, _)
MatchFrom(olds, news, i, keep, del) ==
    IF i > Len(olds) THEN [keep |-> keep, del |-> del]
    ELSE LET k == KeepFor(olds[i], news, 1)
         IN  MatchFrom(olds, news, i + 1, keep \o k,
                       IF k = <<>> THEN Append(del, DownscaleEntry(olds[i])) ELSE del)

\* (mutant) two pool lists are compared without regard to their order
DeepEqual_Unordered(x, y) == Len(x) = Len(y) /\ {x[k] : k \in 1..Len(x)} = {y[k] : k \in 1..Len(y)}

\* reflect.DeepEqual on two pool lists
DeepEqual(x, y) == x = y

\* (mutant) the downscale step lists the pools to delete before the pools to keep
StepList_DeleteFirst(st, keep, del, new) ==
    CASE st = "downscale" -> del \o keep
      [] st = "remove" -> keep
      [] OTHER -> new

\* (mutant) the downscale step submits the new list with the pools to delete
StepList_NewWithDownscale(st, keep, del, new) ==
    CASE st = "downscale" -> new \o del
      [] st = "remove" -> keep
      [] OTHER -> new

\* part_000:315, 323, 331: the node-pool list a step submits
StepList(st, keep, del, new) ==
    CASE st = "downscale" -> keep \o del
      [] st = "remove" -> keep
      [] OTHER -> new

\* (mutant) the downscale step is skipped
FirstStep_NoDownscale(del) == "remove"

\* (mutant) without pools to delete the removal step is skipped
FirstStep_SkipRemove(del) == IF Len(del) > 0 THEN "downscale" ELSE "create"

\* part_000:313: the first step
FirstStep(del) == IF Len(del) > 0 THEN "downscale" ELSE "remove"

\* (mutant) the create step is taken whether or not keep equals new
StepAfter_AlwaysCreate(st, keep, new) ==
    CASE st = "downscale" -> "remove"
      [] st = "remove" -> "create"
      [] OTHER -> ""

\* (mutant) the create step is never taken
StepAfter_NeverCreate(st, keep, new) ==
    CASE st = "downscale" -> "remove"
      [] OTHER -> ""

\* part_000:320-336: the step after st has converged, "" when none is left
StepAfter(st, keep, new) ==
    CASE st = "downscale" -> "remove"
      [] st = "remove" -> (IF ~DeepEqual(keep, new) THEN "create" ELSE "")
      [] OTHER -> ""

\* (mutant) the error of a wait is ignored
AfterWait_IgnoreErr(e, st, keep, new) == StepAfter(st, keep, new)

\* part_000:317-319, 325-327, 333-335: a failed wait ends the run; "" when no
\* step follows
AfterWait(e, st, keep, new) == IF IsErr(e) THEN "" ELSE StepAfter(st, keep, new)

\* kubernikusHandleErrorV1 (part_000:341-349): the action description is put
\* before the message; the result is a plain error
kubernikusHandleErrorV1(msg, e) ==
    IF ~IsErr(e) THEN e
    ELSE [type |-> "errorString", msg |-> e.msg, state |-> e.state, wrap |-> <<msg>> \o e.wrap]

\* kubernikusUpdateNodePoolsV1 up to its first submission (part_000:262-311)
ReconStart ==
    /\ op = "reconcile"
    /\ pc = "begin"
    /\ LET o == kubernikusExpandNodePoolsV1(oldRaw)
           n == kubernikusExpandNodePoolsV1(newRaw)
           m == MatchFrom(o.pools, n.pools, 1, <<>>, <<>>)
       IN  IF IsErr(o.err) \/ IsErr(n.err)
           THEN /\ ret' = [obj |-> 0, err |-> IF IsErr(o.err) THEN o.err ELSE n.err]
                /\ pc' = "done"
                /\ UNCHANGED <<poolsToKeep, poolsToDelete, newNodePools, step>>
           ELSE /\ poolsToKeep' = m.keep
                /\ poolsToDelete' = m.del
                /\ newNodePools' = n.pools
                /\ step' = FirstStep(m.del)
                /\ pc' = "submit"
                /\ UNCHANGED ret
    /\ UNCHANGED <<answer, tagVars, op, conf, ctxDone, waitVars, oldRaw, newRaw, remoteAZ, submitted, okWaits>>

\* kubernikusUpdateAndWait (part_000:351-357): UpdateCluster with the step's
\* list, and on success the wait begins
ReconSubmit ==
    /\ op = "reconcile"
    /\ pc = "submit"
    /\ submitted' = Append(submitted, StepList(step, poolsToKeep, poolsToDelete, newNodePools))
    /\ \/ /\ ret' = [obj |-> 0,
                     err |-> kubernikusHandleErrorV1("Error updating cluster",
                                                     Err("UpdateClusterDefault", "Internal error"))]
          /\ pc' = "done"
          /\ UNCHANGED waitVars
       \/ /\ BeginStateMachine
          /\ pc' = "wait"
          /\ UNCHANGED ret
    /\ UNCHANGED <<answer, tagVars, op, conf, ctxDone, oldRaw, newRaw, remoteAZ, poolsToKeep, poolsToDelete,
                   newNodePools, step, okWaits>>

\* kubernikusUpdateAndWait (part_000:357-362) and the reconciler's next step
\* (part_000:317-338): the wait returned
ReconWaitEnd ==
    /\ op = "reconcile"
    /\ pc = "wait"
    /\ mpc = "ret"
    /\ LET e == ClusterWaitErr(wres.err, conf.target)
           next == AfterWait(e, step, poolsToKeep, newNodePools)
       IN  /\ ret' = IF IsErr(e)
                     THEN [obj |-> 0,
                           err |-> kubernikusHandleErrorV1(
                                      "Error waiting for cluster node pools Running state", e)]
                     ELSE ret
           /\ okWaits' = IF IsErr(e) THEN okWaits ELSE okWaits + 1
           /\ step' = IF next = "" THEN step ELSE next
           /\ pc' = IF next = "" THEN "done" ELSE "submit"
    /\ UNCHANGED <<answer, tagVars, op, conf, ctxDone, waitVars, oldRaw, newRaw, remoteAZ, poolsToKeep,
                   poolsToDelete, newNodePools, submitted>>

ReconTimeouts == {MaxReconTimeout * Second}

InitRecon ==
    /\ op = "reconcile"
    /\ \E t \in ReconTimeouts : conf = ClusterUpdateConf(t)
    /\ pc = "begin"
    /\ ret = NoReturn
    /\ ctxDone = FALSE
    /\ IdleWait
    /\ oldRaw \in RawLists
    /\ newRaw \in RawLists
    /\ remoteAZ \in {"east-1"}
    /\ poolsToKeep = <<>> /\ poolsToDelete = <<>> /\ newNodePools = <<>>
    /\ step = "" /\ submitted = <<>> /\ okWaits = 0
    /\ answer = NoAnswer
    /\ IdleTags

NextRecon ==
    \/ ReconStart \/ ReconSubmit \/ ReconWaitEnd
    \/ GShowReturn \/ GEventsReturn
    \/ StateMachine

SpecRecon == InitRecon /\ [][NextRecon]_vars

\* ------------------------------------------------------- the tag update
\* updateArcAgentTagsV1 (part_003:133-172). A tag map is a function from its
\* keys to their values.
TagKeys == {"a", "b", "c"}
TagValues == {"x", "y"}
TagMaps == UNION {[S -> TagValues] : S \in SUBSET TagKeys}

\* The orders in which a range over a map can visit the keys in S
Orders(S) ==
    {q \in [1..Cardinality(S) -> S] : \A i, j \in 1..Cardinality(S) : i /= j => q[i] /= q[j]}

\* (mutant) a key whose value changed is deleted as well
TagKeysToDelete_Changed(old, new) ==
    {k \in DOMAIN old : k \notin DOMAIN new \/ new[k] /= old[k]}

\* part_003:140-151: the keys of the old map that no key of the new map equals
TagKeysToDelete(old, new) ==
    {k \in DOMAIN old : ~\E nk \in DOMAIN new : k = nk}

\* part_003:161-164: tagsOpts, the new tags as strings
TagsOpts(new) == [k \in DOMAIN new |-> new[k]]

\* What agents.DeleteTag and agents.CreateTags can answer
TagErrors == {NoErr, Err("ErrDefault500", "Internal error")}

Request(kind, key, tags, err) == [kind |-> kind, key |-> key, tags |-> tags, err |-> err]

TagFrame == <<op, conf, ctxDone, waitVars, reconVars, answer, oldTags, newTags>>

\* part_003:134-151: tagsToDelete is collected, in the order the range over
\* oldTags visits the keys
TagsCollect ==
    /\ op = "tags"
    /\ pc = "begin"
    /\ \E q \in Orders(TagKeysToDelete(oldTags, newTags)) : tagsToDelete' = q
    /\ pc' = "delete"
    /\ UNCHANGED <<TagFrame, ret, requests>>

\* part_003:153-158: the next key of tagsToDelete is deleted; a failure is returned
TagsDelete ==
    /\ op = "tags"
    /\ pc = "delete"
    /\ Len(requests) < Len(tagsToDelete)
    /\ \E e \in TagErrors :
          LET key == tagsToDelete[Len(requests) + 1]
          IN  /\ requests' = Append(requests, Request("DeleteTag", key, NoTags, e))
              /\ IF IsErr(e)
                 THEN /\ ret' = [obj |-> 0,
                                 err |-> [type |-> "errorString", msg |-> e.msg, state |-> "",
                                          wrap |-> <<"error deleting tag", key>>]]
                      /\ pc' = "done"
                 ELSE UNCHANGED <<ret, pc>>
    /\ UNCHANGED <<TagFrame, tagsToDelete>>

\* part_003:160-171: every key is deleted; the new tags are sent
TagsCreate ==
    /\ op = "tags"
    /\ pc = "delete"
    /\ Len(requests) = Len(tagsToDelete)
    /\ \E e \in TagErrors :
          /\ requests' = Append(requests, Request("CreateTags", "", TagsOpts(newTags), e))
          /\ ret' = [obj |-> 0,
                     err |-> IF IsErr(e)
                             THEN [type |-> "errorString", msg |-> e.msg, state |-> "",
                                   wrap |-> <<"error updating tags">>]
                             ELSE NoErr]
    /\ pc' = "done"
    /\ UNCHANGED <<TagFrame, tagsToDelete>>

InitTags ==
    /\ op = "tags"
    /\ conf = AgentConf(0, "id")
    /\ pc = "begin"
    /\ ret = NoReturn
    /\ ctxDone = FALSE
    /\ IdleWait
    /\ IdleRecon
    /\ answer = NoAnswer
    /\ oldTags \in TagMaps
    /\ newTags \in TagMaps
    /\ tagsToDelete = <<>>
    /\ requests = <<>>

NextTags == TagsCollect \/ TagsDelete \/ TagsCreate

SpecTags == InitTags /\ [][NextTags]_vars

\* =========================================================== properties
\* Helpers of the properties, stated on the inputs and not on the model's operators
Range(q) == {q[k] : k \in 1..Len(q)}
HasDuplicateName(l) == \E i, j \in 1..Len(l) : i < j /\ l[i].name = l[j].name
Validated == ~HasDuplicateName(oldRaw) /\ ~HasDuplicateName(newRaw)
Zeroed(l) == [k \in 1..Len(l) |-> [l[k] EXCEPT !.size = 0]]
\* old pool o has no counterpart in the new list
Unmatched(o) ==
    ~\E k \in 1..Len(newRaw) :
        /\ newRaw[k].name = o.name /\ newRaw[k].flavor = o.flavor /\ newRaw[k].image = o.image
        /\ newRaw[k].az \in {"", o.az}
\* list l holds pool o, whatever its size
Lists(l, o) == \E e \in Range(l) : [e EXCEPT !.size = o.size] = o
Succeeded == pc = "done" /\ ~IsErr(ret.err)
\* the position of the removal step among the submissions
RemovalIndex == IF poolsToDelete /= <<>> THEN 2 ELSE 1
\* the submissions of a run in which nothing fails
Plan ==
    (IF poolsToDelete /= <<>> THEN <<poolsToKeep \o poolsToDelete>> ELSE <<>>)
    \o <<poolsToKeep>>
    \o (IF poolsToKeep /= newNodePools THEN <<newNodePools>> ELSE <<>>)
IsPrefix(x, y) == Len(x) <= Len(y) /\ \A k \in 1..Len(x) : x[k] = y[k]

\* C1: a run with a non-empty old list and an empty new list in which nothing
\* fails makes exactly two submissions: every old pool at size 0, then the empty list.
C1_RemoveAllTwoSubmissions ==
    (op = "reconcile" /\ Succeeded /\ oldRaw /= <<>> /\ newRaw = <<>>)
        => submitted = <<Zeroed(oldRaw), <<>>>>

C1_Witness ==
    /\ op = "reconcile" /\ Succeeded /\ Len(oldRaw) = 2 /\ newRaw = <<>>
    /\ Len(submitted) = 2 /\ okWaits = 2

\* C2: the steps of a run are sequential: a submission is made only when every
\* earlier submission's wait returned success; after a failed submission or a
\* failed wait nothing more is submitted, the error is returned, and every
\* submission is one of the planned ones (no rollback).
C2_SequentialNoRollback ==
    op = "reconcile" =>
        /\ Len(submitted) <= okWaits + 1
        /\ (pc = "submit" => Len(submitted) = okWaits)
        /\ (pc = "done" /\ Len(submitted) > okWaits => IsErr(ret.err))
        /\ (pc = "done" /\ IsErr(ret.err) /\ Validated => Len(submitted) = okWaits + 1)
        /\ (pc /= "begin" /\ Validated => IsPrefix(submitted, Plan))

C2_Witness ==
    /\ op = "reconcile" /\ pc = "done" /\ IsErr(ret.err)
    /\ Len(Plan) = 3 /\ Len(submitted) = 2 /\ okWaits = 1
    /\ ret.err.wrap = <<"Error waiting for cluster node pools Running state">>

\* C3: an old pool without a counterpart in the new list is missing from a
\* submitted list only if an earlier submission of the run listed it at size 0
\* and the wait after that submission succeeded.
C3_DrainBeforeRemoval ==
    op = "reconcile" =>
        \A k \in 1..Len(submitted) : \A o \in Range(oldRaw) :
            (Unmatched(o) /\ ~Lists(submitted[k], o))
                => \E j \in 1..(k - 1) :
                      /\ [o EXCEPT !.size = 0] \in Range(submitted[j])
                      /\ okWaits >= j

C3_Witness ==
    /\ op = "reconcile" /\ Len(submitted) = 2 /\ Len(oldRaw) = 2
    /\ \E o \in Range(oldRaw) : Unmatched(o) /\ ~Lists(submitted[2], o) /\ o.size > 0
    /\ \E o \in Range(oldRaw) : ~Unmatched(o)

\* C4: a duplicate name in the old or the new list ends the run with a
\* validation error before any remote call: no UpdateCluster, no ShowCluster,
\* no events fetch, no wait.
C4_DuplicateNoRemoteCall ==
    (op = "reconcile" /\ ~Validated) =>
        /\ submitted = <<>> /\ calls = 0 /\ evCalls = 0 /\ mpc = "none" /\ gpc = "none"
        /\ pc \in {"begin", "done"}
        /\ (pc = "done" => ret.err = Err("errorString", "duplicate node pool name found"))

C4_Witness ==
    /\ op = "reconcile" /\ pc = "done"
    /\ HasDuplicateName(newRaw) /\ ~HasDuplicateName(oldRaw) /\ oldRaw /= <<>>
    /\ IsErr(ret.err)

\* C5 as stated: with the old and the new list the same, nothing is submitted
\* and no network call is made.
C5_Original ==
    (op = "reconcile" /\ oldRaw = newRaw) => (submitted = <<>> /\ calls = 0 /\ evCalls = 0)

\* C5 amended: with the old and the new list the same (and valid), the run makes
\* exactly one submission, the removal step carrying the unchanged list, and
\* waits for it; there is no downscale and no create submission.
C5_UnchangedOneSubmission ==
    (op = "reconcile" /\ oldRaw = newRaw /\ Validated) =>
        /\ (pc \in {"wait", "done"} => submitted = <<newRaw>>)
        /\ (pc \in {"begin", "submit"} => submitted = <<>>)
        /\ (pc = "wait" => mpc /= "none")
        /\ (Succeeded => okWaits = 1)

C5_Witness ==
    /\ op = "reconcile" /\ oldRaw = newRaw /\ Len(oldRaw) = 2 /\ Succeeded
    /\ submitted = <<newRaw>> /\ calls > 0

\* C6: once validation has passed and the downscale step, if there is one, has
\* succeeded, the run submits exactly keep and then waits, also when toDelete
\* is empty: it is the next submission, and no run ends without it.
C6_RemovalAlwaysSubmitted ==
    (op = "reconcile" /\ Validated /\ (poolsToDelete = <<>> \/ okWaits >= 1)) =>
        /\ (pc = "submit" /\ Len(submitted) = RemovalIndex - 1 => step = "remove")
        /\ (pc \in {"wait", "done"} =>
                /\ Len(submitted) >= RemovalIndex
                /\ submitted[RemovalIndex] = poolsToKeep)
        /\ (pc = "wait" => mpc /= "none")
        /\ (Succeeded => okWaits >= RemovalIndex)

C6_Witness ==
    /\ op = "reconcile" /\ Succeeded /\ poolsToDelete = <<>> /\ oldRaw /= <<>>
    /\ poolsToKeep /= newNodePools
    /\ Len(submitted) = 2 /\ submitted[1] = poolsToKeep

\* C7 as stated: old = [a, zone unset], new = [a, zone unset, same flavor and
\* image], the remote system reports east-1 for a: the submitted keep entry has
\* zone east-1.
C7_Original ==
    (/\ op = "reconcile"
     /\ oldRaw = <<Pool("a", "f", "i", 3, "")>>
     /\ newRaw = <<Pool("a", "f", "i", 3, "")>>
     /\ remoteAZ = "east-1"
     /\ submitted /= <<>>)
        => submitted[1][1].az = "east-1"

\* C7 amended: the keep entry of a new pool with an unset zone has the zone of
\* the old list's entry it continues, whatever the remote system reports: east-1
\* when the old entry records east-1, unset when the old entry's zone is unset.
C7_KeepZoneFromOldList ==
    (op = "reconcile" /\ Validated /\ Len(submitted) >= RemovalIndex) =>
        \A o \in Range(oldRaw) : \A n \in Range(newRaw) :
            (n.name = o.name /\ n.flavor = o.flavor /\ n.image = o.image /\ n.az = "")
                => [n EXCEPT !.az = o.az] \in Range(submitted[RemovalIndex])

C7_Witness ==
    /\ op = "reconcile"
    /\ oldRaw = <<Pool("a", "f", "i", 3, "")>>
    /\ newRaw = <<Pool("a", "f", "i", 3, "")>>
    /\ remoteAZ = "east-1"
    /\ submitted /= <<>>
    /\ submitted[1][1].az = ""

\* a sample's label is neither a target nor pending
Outside(state) == state \notin conf.target \cup conf.pending
\* the last sample carried an object and a target label
TargetSampled ==
    mpc /= "none" /\ result.obj /= 0 /\ ~IsErr(result.err) /\ result.state \in conf.target

\* C8: in a cluster or job wait whose refresher returned k pending labels and
\* then a target label, without error: the refresher is not called after that
\* sample, it has been called k+1 times, and the wait, unless its timeout fired
\* or its context was cancelled, returns success with that sample's object.
C8_TargetAfterPending ==
    (op \in {"cluster", "job"} /\ TargetSampled) =>
        /\ gpc \in {"sendfinal", "exit"}
        /\ calls = nPending + 1
        /\ result.obj = calls
        /\ (mpc = "ret" /\ ~timedOut /\ ~ctxDone
                => ~IsErr(wres.err) /\ wres.obj = result.obj)
        /\ (pc = "done" /\ ~timedOut /\ ~ctxDone => ~IsErr(ret.err))

C8_Witness ==
    /\ op = "job" /\ pc = "done" /\ ~IsErr(ret.err)
    /\ nPending = 2 /\ calls = 3 /\ wres.obj = 3
    /\ ~timedOut /\ ~ctxDone

\* C9 as stated: in every wait, a sample whose label is neither the target nor
\* pending ends the wait with an error, and the refresher is not called again.
C9_Original ==
    (mpc /= "none" /\ result /= NoResult /\ Outside(result.state))
        => (gpc \in {"sendfinal", "exit"} /\ IsErr(result.err))

\* C9 amended: a sample with such a label ends the cluster wait and the job wait
\* with an error, without another refresher call, whatever time is left. The
\* agent wait ends on it only with timeout 0; under a positive timeout its state
\* machine has no pending set and the sample (no agent yet) is retried.
C9_UnexpectedLabelEndsWait ==
    /\ (op \in {"cluster", "job"} /\ mpc /= "none" /\ result.obj /= 0 /\ Outside(result.state))
          => /\ result.err.type = "UnexpectedStateError"
             /\ gpc \in {"sendfinal", "exit"}
             /\ calls = nPending + 1
             /\ (mpc = "ret" => IsErr(wres.err))
             /\ (pc = "done" => IsErr(ret.err))
    /\ (op = "agent" /\ conf.timeout = 0 /\ pc = "done" /\ Outside(result.state))
          => (IsErr(ret.err) /\ calls = 1 /\ gpc = "none")
    /\ (op = "agent" /\ conf.timeout > 0 /\ result /= NoResult /\ ~IsErr(result.err)
          /\ Outside(result.state))
          => /\ result.obj = 0 /\ ~result.done
             /\ gpc /= "sendfinal"
             /\ (gpc = "exit" => cancelCh)

C9_Witness ==
    /\ op = "cluster" /\ pc = "done"
    /\ result.obj /= 0 /\ Outside(result.state)
    /\ ret.err.type = "UnexpectedStateError"
    /\ nPending = 1 /\ calls = 2 /\ now < deadline

\* C10 as stated: every wait called with timeout 0 calls its refresher exactly once.
C10_Original == (conf.timeout = 0 /\ pc = "done") => calls = 1

\* C10 amended: the agent wait called with timeout 0 calls its refresher exactly
\* once and returns that sample without sleeping: success with the agent if the
\* label is active, failure for any other label or an error. The cluster and the
\* job wait called with timeout 0 never call the refresher: they return a
\* timeout (or cancellation) error.
C10_ZeroTimeout ==
    /\ (op = "agent" /\ conf.timeout = 0) =>
          /\ calls <= 1 /\ mpc = "none" /\ gpc = "none" /\ now = 0
          /\ (pc = "done" =>
                /\ calls = 1
                /\ ~IsErr(ret.err) <=> (result.state = "active" /\ ~IsErr(result.err))
                /\ (~IsErr(ret.err) => ret.obj = result.obj /\ ret.obj /= 0))
    /\ (op \in {"cluster", "job"} /\ conf.timeout = 0) =>
          /\ calls = 0 /\ evCalls = 0 /\ now = 0
          /\ (pc = "done" => ret.err.type \in {"TimeoutError", "ctx"})

C10_Witness ==
    /\ op = "agent" /\ conf.timeout = 0 /\ pc = "done"
    /\ calls = 1 /\ ~IsErr(ret.err) /\ ret.obj = 1

\* the last sample of the wait is a failed ShowCluster with the message msg
ShowFailed(msg) == result.err.type = "ShowClusterDefault" /\ result.err.msg = msg

\* C11: a not-found failure of the cluster fetch that the wait receives (its
\* timeout has not fired and its context is not cancelled by then) is turned
\* into success exactly when the target is Terminated, although no sample
\* carried that label; for any other target it is returned as the error. When
\* the timeout fired first the wait fails with the timeout error, and any other
\* failure of the fetch is an error whatever the target.
C11_NotFoundIsTerminated ==
    (op = "cluster" /\ pc = "done") =>
        /\ (ShowFailed("Not found") /\ "Terminated" \in conf.target) =>
              /\ (~timedOut /\ ~ctxDone => ~IsErr(ret.err))
              /\ (timedOut => ret.err.type = "TimeoutError")
              /\ ret.err.type \in {"nil", "TimeoutError", "ctx"}
              /\ result.state /= "Terminated"
        /\ (ShowFailed("Not found") /\ "Terminated" \notin conf.target) =>
              /\ IsErr(ret.err)
              /\ (~timedOut /\ ~ctxDone => ret.err = result.err)
        /\ ShowFailed("Internal error") =>
              /\ IsErr(ret.err)
              /\ (~timedOut /\ ~ctxDone => ret.err = result.err)

C11_Witness ==
    /\ op = "cluster" /\ pc = "done" /\ "Terminated" \in conf.target
    /\ ShowFailed("Not found") /\ ~IsErr(ret.err)
    /\ calls = 2 /\ nPending = 1 /\ ~timedOut /\ ~ctxDone

\* C12 as stated: a cluster or job wait whose timeout fired while every sample
\* so far carried a pending label returns a timeout error, never success.
C12_Original ==
    (op \in {"cluster", "job"} /\ pc = "done" /\ atTimeout.set /\ atTimeout.allPending
        /\ nPending > 0)
        => ret.err.type = "TimeoutError"

\* C12 amended: if the timeout of a cluster or job wait fires while every sample
\* so far carried a pending label, and at that moment no refresher call is in
\* flight and the goroutine's timer is not due, the wait returns a timeout error
\* that names the last label it received (the last sampled one unless the
\* context was cancelled meanwhile), never success. A refresher call that is in
\* flight or starts at that moment is still answered during the grace period:
\* the wait returns success when an answer with the target arrives in time, and
\* a timeout error otherwise.
C12_TimeoutWhilePending ==
    (op \in {"cluster", "job"} /\ pc = "done" /\ atTimeout.set /\ atTimeout.allPending) =>
        /\ atTimeout.quiet =>
              /\ ret.err.type = "TimeoutError"
              /\ ret.err.state = lastResult.state
              /\ (~ctxDone => ret.err.state = result.state)
              /\ (~ctxDone /\ nPending > 0 => ret.err.state \in conf.pending)
        /\ ~atTimeout.quiet =>
              /\ ret.err.type \in {"nil", "TimeoutError"}
              /\ (~IsErr(ret.err) => result.done /\ result.state \in conf.target)
              /\ (IsErr(ret.err) => ret.err.state = lastResult.state)

C12_Witness ==
    /\ op = "job" /\ pc = "done"
    /\ atTimeout.set /\ atTimeout.allPending /\ atTimeout.quiet
    /\ nPending = 2 /\ calls = 2
    /\ ret.err.type = "TimeoutError" /\ ret.err.state = "executing"

\* C13: when the context is cancelled while the goroutine of a wait sleeps
\* between two polls (its timer and the timeout are not due), the wait returns
\* the cancellation error: the refresher is not called again, the goroutine
\* leaves its sleep before the timer is due, the timeout branch is not taken,
\* and the caller gets the cancellation error, not success.
C13_CancelWhileAsleep ==
    atCancel =>
        /\ ctxDone
        /\ gpc \in {"sleep", "exit"}
        /\ now < wakeAt /\ now < deadline
        /\ mpc \in {"select", "ret"} /\ ~timedOut
        /\ (gpc = "exit" => cancelCh /\ mpc = "ret")
        /\ (mpc = "ret" => wres = [obj |-> 0, err |-> CtxErr])
        /\ (pc = "done" => ret = [obj |-> 0, err |-> CtxErr])

C13_Witness ==
    /\ atCancel /\ op = "cluster" /\ pc = "done"
    /\ calls = 2 /\ nPending = 2 /\ gpc = "exit"
    /\ ret.err = CtxErr

\* the goroutine polls again after the sample in result
Retried ==
    /\ gpc \in {"send", "sleep", "refresh", "events"}
    /\ calls > (IF gpc \in {"refresh", "events"} THEN 1 ELSE 0)

\* the labels of an agent that is not there yet
AbsentLabels == {"unable to retrieve", "No sci_arc_agent_v1 found"}

FetchFailed == result.err.type \in {"ShowClusterDefault", "GetClusterEventsDefault"}

\* C15: in a cluster wait whose target is not Terminated, the first failure of
\* ShowCluster or of GetClusterEvents ends the polling: every sample before it
\* was pending, no fetch is issued after it (a failed ShowCluster is not even
\* followed by the events fetch of its sample), and the wait returns an error,
\* the failure itself unless the timeout fired or the context was cancelled
\* before the wait received it.
C15_FetchFailureIsFinal ==
    (op = "cluster" /\ "Terminated" \notin conf.target /\ FetchFailed) =>
        /\ gpc \in {"sendfinal", "exit"}
        /\ calls = nPending + 1
        /\ evCalls = (IF result.err.type = "ShowClusterDefault" THEN calls - 1 ELSE calls)
        /\ (mpc = "ret" => IsErr(wres.err))
        /\ (mpc = "ret" /\ ~timedOut /\ ~ctxDone => wres.err = result.err)
        /\ (pc = "done" => IsErr(ret.err))
        /\ (pc = "done" /\ ~timedOut /\ ~ctxDone => ret.err = result.err)

C15_Witness ==
    /\ op = "cluster" /\ "Terminated" \notin conf.target /\ pc = "done"
    /\ result.err.type = "GetClusterEventsDefault" /\ ret.err = result.err
    /\ calls = 2 /\ evCalls = 2 /\ nPending = 1 /\ now < deadline

\* a refresher call for a target other than Terminated has returned, and both
\* of its fetches succeeded
Sampled ==
    /\ op = "refresher" /\ pc = "done" /\ "Terminated" \notin conf.target
    /\ ~IsErr(answer.show.err) /\ ~IsErr(answer.events.err)
\* the positions of the events whose reason marks a failure
FailureEvents == {i \in 1..Len(answer.events.list) : FailureReason(answer.events.list[i].reason)}
VersionMismatch ==
    /\ answer.show.payload.phase = "Running"
    /\ answer.show.payload.version /= answer.show.payload.apiserverVersion

\* C16 as stated: if any event returned for the cluster has a reason containing
\* Error or Failed, the sample of the cluster refresher fails with that event's
\* message, whatever the phase, the versions and the node pools are.
C16_Original ==
    (Sampled /\ FailureEvents /= {}) =>
        /\ IsErr(result.err)
        /\ \E i \in FailureEvents : result.err.msg = answer.events.list[i].message

\* C16 amended: if the last of the events returned for the cluster has a reason
\* containing Error or Failed, the sample fails with that event's message and
\* its reason as label, whatever the phase, the versions and the node pools
\* are, and the refresh loop ends on it; a failure event that is followed by
\* another event does not fail the sample.
C16_LastFailureEventFails ==
    Sampled =>
        LET n == Len(answer.events.list)
        IN  IF n > 0 /\ n \in FailureEvents
            THEN /\ result.obj = 0
                 /\ result.state = answer.events.list[n].reason
                 /\ IsErr(result.err) /\ result.err.msg = answer.events.list[n].message
                 /\ Verdict(result, conf, 0) = "error"
            ELSE ~IsErr(result.err) /\ result.obj /= 0

C16_Witness ==
    /\ Sampled
    /\ answer.events.list = <<Event("Normal", "ok"), Event("FailedCreate", "quota exceeded")>>
    /\ answer.show.payload.phase = "Running" /\ ~VersionMismatch
    /\ Len(answer.show.payload.specPools) = 2
    /\ result.err.msg = "quota exceeded"

\* C17: with no failure event, phase Running and a spec version that differs
\* from the API server version, the sampled label is Upgrading, whatever the
\* node pools are.
C17_VersionMismatchIsUpgrading ==
    (Sampled /\ FailureEvents = {} /\ VersionMismatch)
        => (~IsErr(result.err) /\ result.state = "Upgrading")

\* the names of the pools of a list
PoolNames(pools) == {pools[i].name : i \in 1..Len(pools)}
\* some desired pool has a reported healthy count that differs from its size
SizeMismatch(p) ==
    \E i \in 1..Len(p.specPools), j \in 1..Len(p.statusPools) :
        /\ p.specPools[i].name = p.statusPools[j].name
        /\ p.specPools[i].size /= p.statusPools[j].healthy

\* C18 as stated: with no failure event and no version mismatch, the sampled
\* label is Pending when a desired pool's size differs from its healthy count
\* or the reported pools differ by name from the desired ones, and the remote
\* phase otherwise.
C18_Original ==
    (Sampled /\ FailureEvents = {} /\ ~VersionMismatch) =>
        /\ ~IsErr(result.err)
        /\ result.state =
              IF \/ SizeMismatch(answer.show.payload)
                 \/ PoolNames(answer.show.payload.specPools)
                        /= PoolNames(answer.show.payload.statusPools)
              THEN "Pending"
              ELSE answer.show.payload.phase

\* C18 amended: with no failure event and no version mismatch, the sampled label
\* is Pending when a desired pool's size differs from the healthy count reported
\* for the pool of that name, or the number of reported pools differs from the
\* number of desired pools, also when the remote phase is Running; otherwise it
\* is the remote phase.
C18_PoolCountOrSizeIsPending ==
    (Sampled /\ FailureEvents = {} /\ ~VersionMismatch) =>
        /\ ~IsErr(result.err)
        /\ result.state =
              IF \/ SizeMismatch(answer.show.payload)
                 \/ Len(answer.show.payload.specPools) /= Len(answer.show.payload.statusPools)
              THEN "Pending"
              ELSE answer.show.payload.phase

C18_Witness ==
    /\ Sampled /\ FailureEvents = {} /\ ~VersionMismatch
    /\ answer.show.payload.phase = "Running"
    /\ Len(answer.show.payload.specPools) = 2 /\ Len(answer.show.payload.statusPools) = 1
    /\ ~SizeMismatch(answer.show.payload)
    /\ result.state = "Pending"

\* C19: in a job wait the label of a sample is the status of the job that
\* jobs.Get returned, unchanged; a failed jobs.Get, not found included and
\* whatever the timeout, is a sample with an error on which the polling ends:
\* every earlier sample was pending, no fetch follows, and the wait returns an
\* error (that one, unless the timeout fired or the context was cancelled
\* before the wait received it).
C19_JobStatusVerbatim ==
    (op = "job" /\ shown /= NoResult) =>
        /\ ~IsErr(shown.err) =>
              /\ result.state = shown.state
              /\ result.obj = shown.obj /\ result.obj /= 0
        /\ IsErr(shown.err) =>
              /\ IsErr(result.err)
              /\ result.obj = 0
              /\ gpc \in {"sendfinal", "exit"}
              /\ calls = nPending + 1
              /\ (mpc = "ret" => IsErr(wres.err))
              /\ (pc = "done" => IsErr(ret.err))
              /\ (pc = "done" /\ ~timedOut /\ ~ctxDone => ret.err = result.err)

C19_Witness ==
    /\ op = "job" /\ pc = "done" /\ conf.timeout = 4 * Second
    /\ shown.err.type = "ErrDefault404"
    /\ calls = 2 /\ nPending = 1 /\ now < deadline
    /\ ret.err = result.err /\ IsErr(ret.err)

\* the last answer of agents.Get: the agent is not there / another failure
AgentNotFound == ResponseCodeIsNotFound(shown.err)
AgentOtherFailure == IsErr(shown.err) /\ ~ResponseCodeIsNotFound(shown.err)

\* C20: in an agent wait by id, a not-found answer of agents.Get under a
\* positive timeout is a sample without error and without agent, after which the
\* polling goes on (it stops only for the timeout or a cancellation); under
\* timeout 0 it is an error, returned by the single call. Any other failure of
\* agents.Get ends the wait with that error on its first occurrence, whatever
\* the timeout.
C20_AgentNotFoundById ==
    (op = "agent" /\ conf.lookup = "id") =>
        /\ (conf.timeout > 0 /\ AgentNotFound) =>
              /\ ~IsErr(result.err) /\ result.obj = 0 /\ ~result.done
              /\ notfoundTick = (IF gpc = "refresh" THEN calls - 1 ELSE calls)
              /\ gpc /= "sendfinal"
              /\ (gpc = "exit" => cancelCh)
              /\ (pc = "done" => ret.err.type \in {"TimeoutError", "ctx"})
        /\ (conf.timeout = 0 /\ AgentNotFound) =>
              /\ IsErr(result.err) /\ calls = 1 /\ mpc = "none"
              /\ pc = "done" /\ ret.err = result.err
        /\ AgentOtherFailure =>
              /\ IsErr(result.err)
              /\ calls = notfoundTick + 1
              /\ (conf.timeout > 0 => gpc \in {"sendfinal", "exit"})
              /\ (mpc = "ret" => IsErr(wres.err))
              /\ (pc = "done" => IsErr(ret.err))
              /\ (pc = "done" /\ ~timedOut /\ ~ctxDone => ret.err = result.err)

C20_Witness ==
    /\ op = "agent" /\ conf.lookup = "id" /\ conf.timeout > 0
    /\ AgentNotFound /\ gpc = "sleep"
    /\ calls = 2 /\ notfoundTick = 2 /\ now < deadline

\* agents.List has answered the last call of the refresher with n agents
Listed(n) ==
    /\ IF conf.timeout > 0
       THEN calls > (IF gpc = "refresh" THEN 1 ELSE 0)
       ELSE pc = "done"
    /\ ~IsErr(shown.err) /\ shown.obj = n

\* C21: in an agent wait by filter, a list without a match is, under a positive
\* timeout, a sample without error and without agent after which the polling
\* goes on (under timeout 0 the single call returns it as an error); a list
\* with more than one match is an error that ends the wait on its first
\* occurrence; a list with exactly one match is a sample with the label active
\* that ends the polling, and the wait returns that agent unless its timeout
\* fired or its context was cancelled first.
C21_AgentByFilter ==
    (op = "agent" /\ conf.lookup = "filter") =>
        /\ (conf.timeout > 0 /\ Listed(0)) =>
              /\ ~IsErr(result.err) /\ result.obj = 0 /\ ~result.done
              /\ notfoundTick = (IF gpc = "refresh" THEN calls - 1 ELSE calls)
              /\ gpc /= "sendfinal"
              /\ (gpc = "exit" => cancelCh)
              /\ (pc = "done" => ret.err.type \in {"TimeoutError", "ctx"})
        /\ (conf.timeout = 0 /\ Listed(0)) =>
              /\ calls = 1 /\ mpc = "none" /\ IsErr(ret.err)
        /\ Listed(2) =>
              /\ IsErr(result.err) /\ result.obj = 0
              /\ calls = notfoundTick + 1
              /\ (conf.timeout > 0 => gpc \in {"sendfinal", "exit"})
              /\ (mpc = "ret" => IsErr(wres.err))
              /\ (pc = "done" => IsErr(ret.err))
              /\ (pc = "done" /\ ~timedOut /\ ~ctxDone => ret.err = result.err)
        /\ Listed(1) =>
              /\ ~IsErr(result.err) /\ result.state = "active" /\ result.obj = calls
              /\ (conf.timeout > 0 => result.done /\ gpc \in {"sendfinal", "exit"})
              /\ (pc = "done" /\ ~IsErr(ret.err) => ret.obj = result.obj)
              /\ (pc = "done" /\ ~timedOut /\ ~ctxDone => ~IsErr(ret.err))

C21_Witness ==
    /\ op = "agent" /\ conf.lookup = "filter" /\ conf.timeout > 0 /\ pc = "done"
    /\ Listed(1) /\ calls = 2 /\ now < deadline
    /\ ~IsErr(ret.err) /\ ret.obj = 2 /\ ~timedOut /\ ~ctxDone

\* C22: a not-found failure of the cluster fetch that ends a wait of the
\* reconciler is, after kubernikusHandleErrorV1 put the action description
\* before it, still an error of its own type, by which the code recognises not
\* found (part_000:206).
C22_WrapKeepsClassification ==
    (op = "reconcile" /\ pc = "done" /\ ShowFailed("Not found") /\ ~timedOut /\ ~ctxDone)
        => /\ ret.err.type = "ShowClusterDefault"
           /\ ret.err.msg = "Not found"
           /\ ret.err.wrap = <<"Error waiting for cluster node pools Running state">>

\* the entries of list l that carry the name of pool o
Named(l, o) == {k \in 1..Len(l) : l[k].name = o.name}

\* C23: once the inputs passed validation, the match phase has put each old
\* pool in exactly one of keep and toDelete. An old pool is in keep exactly when
\* some new pool has its name, flavor and image and a zone that is unset or
\* equal to its own; its keep entry is that new pool's entry, with an unset zone
\* replaced by the old pool's zone. Otherwise it is in toDelete, as the old pool
\* with size 0 and nothing else changed.
C23_MatchPhase ==
    (op = "reconcile" /\ Validated /\ pc /= "begin") =>
        /\ Len(poolsToKeep) + Len(poolsToDelete) = Len(oldRaw)
        /\ \A o \in Range(oldRaw) :
              IF Unmatched(o)
              THEN /\ Named(poolsToKeep, o) = {}
                   /\ \E k \in 1..Len(poolsToDelete) :
                         /\ Named(poolsToDelete, o) = {k}
                         /\ poolsToDelete[k] = [o EXCEPT !.size = 0]
              ELSE /\ Named(poolsToDelete, o) = {}
                   /\ \E k \in 1..Len(poolsToKeep), n \in Range(newRaw) :
                         /\ Named(poolsToKeep, o) = {k}
                         /\ n.name = o.name /\ n.flavor = o.flavor /\ n.image = o.image
                         /\ n.az \in {"", o.az}
                         /\ poolsToKeep[k] = [n EXCEPT !.az = IF n.az = "" THEN o.az ELSE n.az]

C23_Witness ==
    /\ op = "reconcile" /\ Validated /\ pc /= "begin"
    /\ Len(poolsToKeep) = 1 /\ Len(poolsToDelete) = 1
    /\ \E o \in Range(oldRaw), n \in Range(newRaw) :
          /\ ~Unmatched(o) /\ n.name = o.name /\ n.az = "" /\ o.az /= "" /\ n.size /= o.size
          /\ poolsToKeep[1] = [n EXCEPT !.az = o.az]
    /\ \E o \in Range(oldRaw) : Unmatched(o) /\ poolsToDelete[1] = [o EXCEPT !.size = 0]

\* some old pool has no counterpart in the new list
SomeUnmatched == \E o \in Range(oldRaw) : Unmatched(o)

\* C24: a run whose inputs passed validation makes the downscale submission
\* exactly when toDelete is not empty, that is when some old pool has no
\* counterpart in the new list. It is then the first submission of the run, its
\* list is keep followed by toDelete, with every pool of toDelete at size 0, and
\* no later submission repeats it; without such a pool the first submission is
\* keep alone.
C24_DownscaleFirst ==
    (op = "reconcile" /\ Validated /\ pc /= "begin") =>
        /\ SomeUnmatched <=> poolsToDelete /= <<>>
        /\ pc \in {"wait", "done"} => submitted /= <<>>
        /\ (submitted /= <<>> /\ SomeUnmatched) =>
              /\ submitted[1] = poolsToKeep \o poolsToDelete
              /\ \A k \in 1..Len(poolsToDelete) :
                    submitted[1][Len(poolsToKeep) + k].size = 0
              /\ \A k \in 2..Len(submitted) : submitted[k] /= submitted[1]
        /\ (submitted /= <<>> /\ ~SomeUnmatched) =>
              /\ submitted[1] = poolsToKeep
              /\ \A k \in 1..Len(submitted) : \A o \in Range(oldRaw) :
                    [o EXCEPT !.size = 0] \notin Range(submitted[k])

C24_Witness ==
    /\ op = "reconcile" /\ Validated /\ Succeeded
    /\ Len(poolsToKeep) = 1 /\ Len(poolsToDelete) = 1
    /\ Len(submitted) = 3
    /\ submitted[1] = poolsToKeep \o poolsToDelete
    /\ submitted[1][2].size = 0 /\ submitted[1][1].size > 0

\* the removal step of the run has converged
RemovalConverged == okWaits >= RemovalIndex

\* C25: once the removal step of a validated run has converged, the run makes
\* one more submission, carrying exactly the new list, if and only if keep
\* differs from the new list as an ordered list (a pool added or changed, an
\* unset zone filled in from the old pool, or the same pools in another order);
\* when the two are equal the removal submission is the last one and the run
\* returns success.
C25_CreateIffKeepDiffers ==
    (op = "reconcile" /\ Validated /\ RemovalConverged) =>
        IF poolsToKeep /= newRaw
        THEN /\ (pc = "submit" => Len(submitted) = RemovalIndex)
             /\ (pc \in {"wait", "done"} =>
                    /\ Len(submitted) = RemovalIndex + 1
                    /\ submitted[RemovalIndex + 1] = newRaw)
             /\ (Succeeded => okWaits = RemovalIndex + 1)
        ELSE /\ pc = "done" /\ Succeeded
             /\ Len(submitted) = RemovalIndex /\ okWaits = RemovalIndex
             /\ submitted[RemovalIndex] = newRaw

C25_Witness ==
    /\ op = "reconcile" /\ Validated /\ Succeeded
    /\ Len(oldRaw) = 2 /\ newRaw = <<oldRaw[2], oldRaw[1]>>
    /\ poolsToKeep = oldRaw
    /\ submitted = <<oldRaw, newRaw>>

\* C26: in a run whose inputs passed validation, every submitted pool list, of
\* every step, has pairwise distinct pool names.
C26_DistinctNamesSubmitted ==
    (op = "reconcile" /\ Validated) =>
        \A k \in 1..Len(submitted) : ~HasDuplicateName(submitted[k])

C26_Witness ==
    /\ op = "reconcile" /\ Validated /\ Succeeded /\ Len(submitted) = 3
    /\ Len(submitted[1]) = 2 /\ Len(submitted[3]) = 2
    /\ \E n \in Range(newRaw) : \E o \in Range(oldRaw) : n.name = o.name /\ Unmatched(o)

\* new pool n continues no old pool: its name is new, or its flavor, its image
\* or its explicit zone differs from the old pool of its name
Added(n) ==
    ~\E o \in Range(oldRaw) :
        /\ o.name = n.name /\ o.flavor = n.flavor /\ o.image = n.image
        /\ n.az \in {"", o.az}

\* C27: in a validated run, the downscale and the removal submission hold only
\* pools whose name occurs in the old list, and no new pool that continues no
\* old pool. Such a pool is submitted only by the create step, the submission
\* after the removal step, and so only after the waits of the downscale and the
\* removal step returned success.
C27_AdditionsAfterRemovals ==
    (op = "reconcile" /\ Validated) =>
        \A k \in 1..Len(submitted) :
            /\ k <= RemovalIndex =>
                  /\ \A e \in Range(submitted[k]) : \E o \in Range(oldRaw) : o.name = e.name
                  /\ \A n \in Range(newRaw) : Added(n) => n \notin Range(submitted[k])
            /\ (\E n \in Range(newRaw) : Added(n) /\ n \in Range(submitted[k])) =>
                  /\ k = RemovalIndex + 1
                  /\ okWaits >= RemovalIndex
                  /\ submitted[k] = newRaw

C27_Witness ==
    /\ op = "reconcile" /\ Validated /\ Succeeded /\ Len(submitted) = 3
    /\ \E n \in Range(newRaw) :
          /\ Added(n) /\ \E o \in Range(oldRaw) : o.name = n.name
          /\ n \in Range(submitted[3])
    /\ \E n \in Range(newRaw) : Added(n) /\ \A o \in Range(oldRaw) : o.name /= n.name

\* C28: an agent wait with a positive timeout ends with a not-found error on
\* the first sample that makes more than 1000 consecutive samples without an
\* agent, the 1001st, although its deadline has not passed: no poll follows,
\* and the caller gets the not-found error unless the context was cancelled
\* first. With 1000 or fewer such samples the wait does not end with a
\* not-found error: it goes on until its timeout or a cancellation.
C28_NotFoundLimit ==
    (op = "agent" /\ conf.timeout > 0) =>
        /\ notfoundTick <= 1001
        /\ (result.err.type = "NotFoundError") <=> (notfoundTick > 1000)
        /\ notfoundTick > 1000 =>
              /\ calls = 1001
              /\ now < deadline /\ ~timedOut
              /\ gpc \in {"sendfinal", "exit"}
              /\ (mpc = "ret" /\ ~ctxDone => wres.err.type = "NotFoundError")
              /\ (pc = "done" => IsErr(ret.err))
              /\ (pc = "done" /\ ~ctxDone => ret.err.type = "NotFoundError")
        /\ (notfoundTick <= 1000 /\ notfoundTick = calls /\ pc = "done")
              => ret.err.type \in {"TimeoutError", "ctx"}

C28_Witness ==
    /\ op = "agent" /\ conf.timeout = LongTimeout * Second /\ pc = "done"
    /\ calls = 1001 /\ notfoundTick = 1001
    /\ ret.err.type = "NotFoundError"
    /\ now < deadline /\ ~timedOut /\ ~ctxDone

\* C29: with the target Terminated a call of the cluster refresher fetches the
\* cluster only, never its events, and a fetched cluster is a sample without
\* error whose label is the remote phase as it is: a failure event, a version
\* that differs from the API server's and node pools that differ in size or
\* number change nothing, and the label, a pending one, does not end the wait.
C29_DeleteSampleVerbatim ==
    (op = "refresher" /\ "Terminated" \in conf.target) =>
        /\ pc /= "events" /\ evCalls = 0
        /\ (pc = "done" /\ ~IsErr(answer.show.err)) =>
              /\ calls = 1
              /\ ~IsErr(result.err) /\ result.obj /= 0
              /\ result.state = answer.show.payload.phase
              /\ result.state \in conf.pending /\ result.state \notin conf.target

C29_Witness ==
    /\ op = "refresher" /\ "Terminated" \in conf.target /\ pc = "done"
    /\ ~IsErr(answer.show.err) /\ ~IsErr(answer.events.err)
    /\ FailureEvents /= {} /\ Len(answer.events.list) \in FailureEvents
    /\ VersionMismatch
    /\ SizeMismatch(answer.show.payload)
    /\ Len(answer.show.payload.specPools) /= Len(answer.show.payload.statusPools)
    /\ result.state = "Running" /\ ~IsErr(result.err)

\* the positions of the requests of a kind, and the keys the tag update has to remove
Deletions == {i \in 1..Len(requests) : requests[i].kind = "DeleteTag"}
Creations == {i \in 1..Len(requests) : requests[i].kind = "CreateTags"}
RemovedKeys == DOMAIN oldTags \ DOMAIN newTags

\* C30: updateArcAgentTagsV1 requests the deletion of keys of the old map that
\* are absent from the new map only, each at most once, and before it sends its
\* single create request it has deleted exactly those keys, each with success;
\* the create request carries all the new tags and is the last request. A
\* deletion that fails is the last request: its error is returned and no
\* create request is made. The update returns success only after a create
\* request that succeeded.
C30_TagsDeletedThenCreated ==
    op = "tags" =>
        /\ \A i \in Deletions : requests[i].key \in RemovedKeys
        /\ \A i, j \in Deletions : i /= j => requests[i].key /= requests[j].key
        /\ \A c \in Creations :
              /\ c = Len(requests)
              /\ Deletions = 1..(c - 1)
              /\ {requests[i].key : i \in Deletions} = RemovedKeys
              /\ \A i \in Deletions : ~IsErr(requests[i].err)
              /\ DOMAIN requests[c].tags = DOMAIN newTags
              /\ \A k \in DOMAIN newTags : requests[c].tags[k] = newTags[k]
        /\ \A i \in Deletions : IsErr(requests[i].err) =>
              /\ i = Len(requests) /\ Creations = {}
              /\ pc = "done"
              /\ IsErr(ret.err) /\ ret.err.msg = requests[i].err.msg
              /\ ret.err.wrap = <<"error deleting tag", requests[i].key>>
        /\ pc = "done" =>
              /\ requests /= <<>>
              /\ IsErr(ret.err) <=> IsErr(requests[Len(requests)].err)
              /\ (~IsErr(ret.err) => Creations /= {})

C30_Witness ==
    /\ op = "tags" /\ pc = "done"
    /\ Cardinality(RemovedKeys) = 2
    /\ \E k \in DOMAIN oldTags \cap DOMAIN newTags : oldTags[k] /= newTags[k]
    /\ Len(requests) = 2 /\ Deletions = {1, 2}
    /\ ~IsErr(requests[1].err) /\ IsErr(requests[2].err)
    /\ IsErr(ret.err)

====
